---------------------------- MODULE Spec2Model ----------------------------
(***************************************************************************)
(* The COUP engine of src/src/lib/gameEngine.ts (lines 1-537) as a state   *)
(* machine.  Every exported function of the engine is an operator of the   *)
(* same name that maps a GameState record to a GameState record, exactly   *)
(* as the TypeScript does; the actions StartAction, Challenge, Block and   *)
(* Pass apply one accepted call to the current state.  A call that throws  *)
(* leaves no state behind, so it is no step of the machine; whether a call *)
(* throws is decided by the same guards (canPerformAction, canChallenge,   *)
(* canBlock, canPass).                                                     *)
(*                                                                         *)
(* Conventions                                                             *)
(*  - A player id `player_i` (i = 0..n-1) is the position i+1 of the       *)
(*    player in state.players; NoPlayer (0) is null/undefined.             *)
(*    currentPlayerIndex is 1-based likewise.                              *)
(*  - An array is a sequence; indexOf and slice keep JavaScript's          *)
(*    0-based, negative-index semantics (indexOf, slice below); filter is  *)
(*    SelectSeq.                                                           *)
(*  - The deck is kept as the multiset of its cards.  Its order is set by  *)
(*    shuffleDeck (Math.random) and is read only by pop(), so a pop draws  *)
(*    any card of the multiset: the draw is an input of the action.        *)
(*  - logs, id and timestamps are narration only: no guard or effect       *)
(*    reads them, and they are left out.                                   *)
(*  - startAction is given a targetId exactly for the kinds that read it   *)
(*    (coup, assassinate, steal).                                          *)
(*  - A behaviour starts from createGame on one of the decks listed in     *)
(*    Games, followed by 0..OpeningRounds rounds in which every player     *)
(*    takes tax and everybody passes; those rounds are computed with the   *)
(*    engine's own operators (opening).                                    *)
(*  - last and moves are history: the accepted call that produced the      *)
(*    state (with every player's coins before it) and the number of calls. *)
(*  - In a multiplayer game (SpecMultiplayer) the six GameState variables   *)
(*    are the game_state column of the room's row in game_rooms, and        *)
(*    clients holds what each browser has: its React gameState, its update  *)
(*    request on the way to the database and the postgres_changes payloads  *)
(*    it has not handled yet.                                               *)
(*  - rummy is the RummyGameState of the second engine of the repository    *)
(*    (SpecRummy).  Cards are counted, not named: no guard of the five turn  *)
(*    operations reads a card, and declareGame reads them only through the   *)
(*    verdict of isValidDeclaration on the melds the caller hands in, which  *)
(*    is an input here.  Names, points, melds and messages are left out.     *)
(***************************************************************************)
EXTENDS Integers, Sequences, FiniteSets

VARIABLES
    players,             \* GameState.players: sequence of Player records
    deck,                \* GameState.deck: multiset Character -> count
    currentPlayerIndex,  \* GameState.currentPlayerIndex (1-based)
    pendingAction,       \* GameState.pendingAction: NoPending or a record
    winner,              \* GameState.winner: NoPlayer or a player id
    phase,               \* GameState.phase: "playing" | "finished"
    last,                \* the accepted call that produced this state
    moves,               \* number of accepted calls so far (bounded)
    clients,             \* the browsers of a multiplayer game (none in a local game)
    rummy                \* the RummyGameState of the rummy engine (none in a COUP game)

vars == <<players, deck, currentPlayerIndex, pendingAction, winner, phase, last, moves,
          clients, rummy>>

-----------------------------------------------------------------------------
(* Bounds of the model *)

\* createGame is run on the first NumGames of the inputs listed in Games
NumGames == 3
\* a game opens with 0..OpeningRounds rounds in which every player takes tax unopposed
OpeningRounds == 3
\* number of accepted calls explored after the opening in a game of MinPlayers
\* players; one call less for every further player
MaxMoves == 5
\* createGame is called with 0..MaxNames names
MaxNames == 7
\* number of moves the clients of a multiplayer game submit
MaxWrites == 3
\* number of calls answered before the caller starts to pass for the awaited players
MaxAnswered == 3
\* a rummy game has 2..MaxRummyPlayers players and receives MaxRummyCalls calls
MaxRummyPlayers == 3
MaxRummyCalls == 5

(* Program constants *)
MinPlayers == 2
MaxPlayers == 6
CopiesPerCharacter == 3
StartCoins == 2
MustCoupCoins == 10
MaxSteal == 2

-----------------------------------------------------------------------------
(* gameTypes.ts *)

Characters == <<"Duke", "Assassin", "Captain", "Ambassador", "Contessa">>
Character == {Characters[i] : i \in 1..Len(Characters)}
NoChar == "null"

ActionType == {"income", "foreign_aid", "coup", "tax", "assassinate", "steal", "exchange"}

NoPlayer == 0
NoPending == [phase |-> "null"]
NoRummy == [phase |-> "null"]

\* (mutant of ACTION_COSTS) assassinate is free
ACTION_COSTS_freeAssassinate(type) ==
    CASE type = "coup" -> 7
      [] OTHER -> 0

ACTION_COSTS(type) ==
    CASE type = "coup" -> 7
      [] type = "assassinate" -> 3
      [] OTHER -> 0

ACTION_CHARACTERS(type) ==
    CASE type = "tax" -> "Duke"
      [] type = "assassinate" -> "Assassin"
      [] type = "steal" -> "Captain"
      [] type = "exchange" -> "Ambassador"
      [] OTHER -> NoChar

\* (mutant of BLOCK_CHARACTERS) a Duke may block tax as well
BLOCK_CHARACTERS_dukeBlocksTax(type) ==
    CASE type \in {"foreign_aid", "tax"} -> <<"Duke">>
      [] type = "assassinate" -> <<"Contessa">>
      [] type = "steal" -> <<"Captain", "Ambassador">>
      [] OTHER -> <<>>

BLOCK_CHARACTERS(type) ==
    CASE type = "foreign_aid" -> <<"Duke">>
      [] type = "assassinate" -> <<"Contessa">>
      [] type = "steal" -> <<"Captain", "Ambassador">>
      [] OTHER -> <<>>

-----------------------------------------------------------------------------
(* JavaScript array helpers *)

Min(a, b) == IF a < b THEN a ELSE b
Max(a, b) == IF a > b THEN a ELSE b

Range(s) == {s[i] : i \in 1..Len(s)}
includes(s, x) == x \in Range(s)

\* Array.prototype.indexOf: 0-based index of the first x, -1 when absent
indexOf(s, x) ==
    IF includes(s, x)
    THEN (CHOOSE i \in 1..Len(s) : s[i] = x /\ \A j \in 1..(i-1) : s[j] # x) - 1
    ELSE -1

\* a relative index of slice(): negative counts from the end, clamped to 0..length
relIndex(s, i) == IF i < 0 THEN Max(Len(s) + i, 0) ELSE Min(i, Len(s))

\* Array.prototype.slice(b, e), 0-based, e exclusive
slice(s, b, e) == SubSeq(s, relIndex(s, b) + 1, relIndex(s, e))

\* Array.prototype.slice(b)
sliceFrom(s, b) == SubSeq(s, relIndex(s, b) + 1, Len(s))

\* the ids of state.players in array order
playerIds(state) == [i \in 1..Len(state.players) |-> i]

-----------------------------------------------------------------------------
(* The deck as a multiset *)

EmptyBag == [c \in Character |-> 0]
bagAdd(bag, c) == [bag EXCEPT ![c] = @ + 1]
bagRemove(bag, c) == [bag EXCEPT ![c] = @ - 1]

RECURSIVE bagOfSeq(_)
bagOfSeq(s) == IF s = <<>> THEN EmptyBag ELSE bagAdd(bagOfSeq(Tail(s)), Head(s))

bagPlus(a, b) == [c \in Character |-> a[c] + b[c]]

-----------------------------------------------------------------------------
(* gameEngine.ts *)

\* createDeck before its shuffle: 3 of each character, in the order pushed
createDeckCards ==
    [i \in 1..(Len(Characters) * CopiesPerCharacter) |->
        Characters[((i - 1) \div CopiesPerCharacter) + 1]]

\* the inputs of createGame: the number of names, and the deck createDeck
\* returns (a permutation of createDeckCards; cards are popped from the tail)
Games ==
    << [n |-> 2, shuffled |->
          <<"Contessa", "Duke", "Assassin", "Captain", "Ambassador", "Duke", "Contessa", "Ambassador",
            "Captain", "Ambassador", "Assassin", "Captain", "Contessa", "Assassin", "Duke">>],
       [n |-> 2, shuffled |->
          <<"Duke", "Assassin", "Assassin", "Captain", "Assassin", "Duke", "Contessa", "Captain",
            "Ambassador", "Ambassador", "Contessa", "Contessa", "Duke", "Ambassador", "Captain">>],
       [n |-> 3, shuffled |->
          <<"Duke", "Captain", "Assassin", "Captain", "Ambassador", "Contessa", "Contessa", "Ambassador",
            "Assassin", "Duke", "Ambassador", "Contessa", "Assassin", "Captain", "Duke">>],
       [n |-> 2, shuffled |->
          <<"Captain", "Duke", "Assassin", "Ambassador", "Ambassador", "Duke", "Contessa", "Assassin",
            "Captain", "Contessa", "Duke", "Captain", "Ambassador", "Assassin", "Contessa">>] >>

\* the deck cut r cards down: one more of the orders shuffleDeck can return
rotate(s, r) == [i \in 1..Len(s) |-> s[((i - 1 + r) % Len(s)) + 1]]

\* (mutant of canCreateGame) a single name is enough
canCreateGame_singleName(n) ==
    IF n < 1 \/ n > MaxPlayers THEN "COUP requires 2-6 players" ELSE "valid"

\* the throw at the head of createGame: the reason, or "valid"; n = playerNames.length
canCreateGame(n) ==
    IF n < MinPlayers \/ n > MaxPlayers THEN "COUP requires 2-6 players" ELSE "valid"

createPlayer ==
    [coins |-> StartCoins, influences |-> <<>>, revealedInfluences |-> <<>>, isAlive |-> TRUE]

\* createGame on a deck already shuffled: player i takes the two cards popped
\* from the tail, in that order
createGame(n, shuffled) ==
    LET L == Len(shuffled) IN
    [players |-> [i \in 1..n |->
        [createPlayer EXCEPT !.influences =
            <<shuffled[L - 2 * (i - 1)], shuffled[L - 2 * (i - 1) - 1]>>]],
     deck |-> bagOfSeq(SubSeq(shuffled, 1, L - 2 * n)),
     currentPlayerIndex |-> 1,
     pendingAction |-> NoPending,
     winner |-> NoPlayer,
     phase |-> "playing"]

getCurrentPlayer(state) == state.players[state.currentPlayerIndex]

\* (mutant of checkWinner) the last living player is not declared winner
checkWinner_noWinner(state) == state

\* checkWinner: exactly one living player wins
checkWinner(state) ==
    LET alivePlayers == SelectSeq(playerIds(state), LAMBDA i : state.players[i].isAlive) IN
    IF Len(alivePlayers) = 1
    THEN [state EXCEPT !.winner = alivePlayers[1], !.phase = "finished"]
    ELSE state

\* (mutant of skipEliminated) the turn goes to the next seat, alive or not
skipEliminated_nextSeat(state, nextIndex) == nextIndex

\* nextTurn's while loop: the first living player from nextIndex on, cyclically
RECURSIVE skipEliminated(_, _)
skipEliminated(state, nextIndex) ==
    IF ~state.players[nextIndex].isAlive
    THEN skipEliminated(state, (nextIndex % Len(state.players)) + 1)
    ELSE nextIndex

\* (mutant of nextTurn) the action is cleared but the turn stays where it is
nextTurn_staysOnPlayer(state) ==
    IF state.winner # NoPlayer THEN state
    ELSE [state EXCEPT !.pendingAction = NoPending]

nextTurn(state) ==
    IF state.winner # NoPlayer THEN state
    ELSE [state EXCEPT
            !.currentPlayerIndex =
                skipEliminated(state, (state.currentPlayerIndex % Len(state.players)) + 1),
            !.pendingAction = NoPending]

\* loseInfluence(state, playerId, cardToLose); cardToLose = NoChar is null
loseInfluence(state, playerId, cardToLose) ==
    LET player == state.players[playerId] IN
    IF Len(player.influences) = 0 THEN state
    ELSE
      LET card == IF cardToLose = NoChar THEN player.influences[1] ELSE cardToLose
          cardIndex == indexOf(player.influences, card)
      IN
      IF cardIndex = -1 THEN state
      ELSE
        LET newInfluences ==
                slice(player.influences, 0, cardIndex) \o sliceFrom(player.influences, cardIndex + 1)
        IN checkWinner([state EXCEPT !.players[playerId] =
                [player EXCEPT !.influences = newInfluences,
                               !.revealedInfluences = Append(@, card),
                               !.isAlive = Len(newInfluences) > 0]])

\* (mutant of stealCoins) two coins move whatever the target holds
stealTwoCoins(state, action) ==
    LET taken == [state EXCEPT !.players[action.targetId].coins = @ - MaxSteal]
    IN [taken EXCEPT !.players[action.playerId].coins = @ + MaxSteal]

\* resolveAction, case 'steal': min(2, target's coins) go from the target to the actor
stealCoins(state, action) ==
    LET playerIndex == action.playerId
        targetIndex == action.targetId
        stolen == Min(MaxSteal, state.players[targetIndex].coins)
        taken == [state EXCEPT !.players[targetIndex].coins = @ - stolen]
    IN [taken EXCEPT !.players[playerIndex].coins = @ + stolen]

\* resolveAction, case 'exchange': two cards are popped, the first numToKeep of
\* (held + popped) are kept, the rest goes back and the deck is shuffled
exchangeCards(state, action, draw) ==
    LET playerIndex == action.playerId
        afterPop == bagRemove(bagRemove(state.deck, draw[1]), draw[2])
        allCards == state.players[playerIndex].influences \o draw
        numToKeep == Len(state.players[playerIndex].influences)
    IN [state EXCEPT
          !.players[playerIndex].influences = slice(allCards, 0, numToKeep),
          !.deck = bagPlus(afterPop, bagOfSeq(sliceFrom(allCards, numToKeep)))]

\* resolveAction(state, action); draw = the two cards an exchange pops from the deck
resolveAction(state, action, draw) ==
    LET playerIndex == action.playerId
        type == action.type
        applied ==
          CASE type = "income" -> [state EXCEPT !.players[playerIndex].coins = @ + 1]
            [] type = "foreign_aid" -> [state EXCEPT !.players[playerIndex].coins = @ + 2]
            [] type = "tax" -> [state EXCEPT !.players[playerIndex].coins = @ + 3]
            [] type \in {"coup", "assassinate"} -> loseInfluence(state, action.targetId, NoChar)
            [] type = "steal" -> stealCoins(state, action)
            [] type = "exchange" -> exchangeCards(state, action, draw)
    IN nextTurn([applied EXCEPT !.pendingAction = NoPending])

\* (mutant of mustCoup) the forced coup starts above 10 coins only
mustCoupAbove(player, action) == player.coins > MustCoupCoins /\ action.type # "coup"

\* (mutant of mustCoup) nobody is ever forced to coup
mustCoup_never(player, action) == FALSE

\* canPerformAction: "Must coup with 10+ coins"
mustCoup(player, action) == player.coins >= MustCoupCoins /\ action.type # "coup"

\* (mutant of canPerformAction) any living player may act, whoever's turn it is
canPerformAction_anyTurn(state, action) ==
    LET player == state.players[action.playerId] IN
    IF ~player.isAlive THEN "Player is eliminated"
    ELSE IF state.pendingAction # NoPending THEN "Action already pending"
    ELSE IF player.coins < ACTION_COSTS(action.type) THEN "Not enough coins"
    ELSE IF mustCoup(player, action) THEN "Must coup when you have 10+ coins"
    ELSE IF action.type \in {"coup", "assassinate", "steal"}
         THEN IF action.targetId = NoPlayer THEN "Target required"
              ELSE IF ~state.players[action.targetId].isAlive THEN "Target is eliminated"
              ELSE IF action.targetId = action.playerId THEN "Cannot target yourself"
              ELSE IF action.type = "steal" /\ state.players[action.targetId].coins = 0
                   THEN "Target has no coins to steal"
              ELSE "valid"
    ELSE "valid"

\* canPerformAction: the reason of the rejection, or "valid"
canPerformAction(state, action) ==
    LET player == state.players[action.playerId]
        cost == ACTION_COSTS(action.type)
    IN
    IF ~player.isAlive THEN "Player is eliminated"
    ELSE IF state.currentPlayerIndex # action.playerId THEN "Not your turn"
    ELSE IF state.pendingAction # NoPending THEN "Action already pending"
    ELSE IF player.coins < cost THEN "Not enough coins"
    ELSE IF mustCoup(player, action) THEN "Must coup when you have 10+ coins"
    ELSE IF action.type \in {"coup", "assassinate", "steal"}
         THEN IF action.targetId = NoPlayer THEN "Target required"
              ELSE IF ~state.players[action.targetId].isAlive THEN "Target is eliminated"
              ELSE IF action.targetId = action.playerId THEN "Cannot target yourself"
              ELSE IF action.type = "steal" /\ state.players[action.targetId].coins = 0
                   THEN "Target has no coins to steal"
              ELSE "valid"
    ELSE "valid"

\* (mutant of deductCost) the cost is not taken when the action is declared
deductNothing(state, action) == state

\* startAction: the cost of coup and assassinate is deducted at once
deductCost(state, action) ==
    IF action.type \in {"coup", "assassinate"}
    THEN [state EXCEPT !.players[action.playerId].coins = @ - ACTION_COSTS(action.type)]
    ELSE state

\* (mutant of startAction) only coup is resolved at once; income waits for the others
startAction_incomePending(state, action, draw) ==
    LET newState == deductCost(state, action)
        otherPlayers ==
            SelectSeq(playerIds(state),
                      LAMBDA i : state.players[i].isAlive /\ i # action.playerId)
    IN
    IF action.type = "coup"
    THEN resolveAction(newState, action, draw)
    ELSE [newState EXCEPT !.pendingAction =
            [action |-> action,
             phase |-> IF ACTION_CHARACTERS(action.type) # NoChar
                       THEN "challenge_action" ELSE "block",
             blockerId |-> NoPlayer,
             blockerCharacter |-> NoChar,
             waitingForPlayers |-> otherPlayers]]

\* startAction, for an action canPerformAction accepts
startAction(state, action, draw) ==
    LET character == ACTION_CHARACTERS(action.type)
        newState == deductCost(state, action)
        otherPlayers ==
            SelectSeq(playerIds(state),
                      LAMBDA i : state.players[i].isAlive /\ i # action.playerId)
    IN
    IF action.type \in {"income", "coup"}
    THEN resolveAction(newState, action, draw)
    ELSE [newState EXCEPT !.pendingAction =
            [action |-> action,
             phase |-> IF character # NoChar THEN "challenge_action" ELSE "block",
             blockerId |-> NoPlayer,
             blockerCharacter |-> NoChar,
             waitingForPlayers |-> otherPlayers]]

\* (mutant of canChallenge) only a player still awaited may challenge
canChallenge_awaitedOnly(state, challengerId) ==
    IF state.pendingAction = NoPending THEN "No pending action"
    ELSE IF ~state.players[challengerId].isAlive THEN "Invalid challenger"
    ELSE IF state.pendingAction.phase \notin {"challenge_action", "challenge_block"}
         THEN "Cannot challenge in this phase"
    ELSE IF ~includes(state.pendingAction.waitingForPlayers, challengerId)
         THEN "Not waiting for this player"
    ELSE "valid"

\* the throws at the head of challenge: the reason, or "valid"
canChallenge(state, challengerId) ==
    IF state.pendingAction = NoPending THEN "No pending action"
    ELSE IF ~state.players[challengerId].isAlive THEN "Invalid challenger"
    ELSE IF state.pendingAction.phase \notin {"challenge_action", "challenge_block"}
         THEN "Cannot challenge in this phase"
    ELSE "valid"

\* whom a challenge accuses, and of holding which character
accusedOf(pending) ==
    IF pending.phase = "challenge_action"
    THEN [targetId |-> pending.action.playerId,
          claimedCharacter |-> ACTION_CHARACTERS(pending.action.type)]
    ELSE [targetId |-> pending.blockerId, claimedCharacter |-> pending.blockerCharacter]

\* challenge, failed: the claimed card goes back into the deck, the deck is
\* shuffled and the card popped takes the place indexOf finds for the claimed card
replaceClaimedCard(state, targetId, claimedCharacter, newCard) ==
    LET held == state.players[targetId].influences
        cardIndex == indexOf(held, claimedCharacter)
    IN [state EXCEPT
          !.deck = bagRemove(bagAdd(state.deck, claimedCharacter), newCard),
          !.players[targetId].influences =
              slice(held, 0, cardIndex) \o <<newCard>> \o sliceFrom(held, cardIndex + 1)]

\* challenge, for a call canChallenge accepts; newCard = the card the accused
\* pops after the claimed card is shuffled back, draw as in resolveAction
challenge(state, challengerId, newCard, draw) ==
    LET action == state.pendingAction.action
        pphase == state.pendingAction.phase
        targetId == accusedOf(state.pendingAction).targetId
        claimedCharacter == accusedOf(state.pendingAction).claimedCharacter
        target == state.players[targetId]
        hasCharacter == includes(target.influences, claimedCharacter)
    IN
    IF hasCharacter
    THEN
      LET lost == loseInfluence(state, challengerId, NoChar)
          newState == replaceClaimedCard(lost, targetId, claimedCharacter, newCard)
      IN IF pphase = "challenge_action"
         THEN resolveAction(newState, action, draw)
         ELSE nextTurn(newState)
    ELSE
      LET newState == loseInfluence(state, targetId, NoChar)
      IN IF pphase = "challenge_action"
         THEN nextTurn(newState)
         ELSE resolveAction(newState, action, draw)

\* the throws at the head of block: the reason, or "valid"
canBlock(state, blockerId, character) ==
    IF state.pendingAction = NoPending THEN "No pending action"
    ELSE IF ~state.players[blockerId].isAlive THEN "Invalid blocker"
    ELSE IF state.pendingAction.phase \notin {"block", "challenge_action"}
         THEN "Cannot block in this phase"
    ELSE IF ~includes(BLOCK_CHARACTERS(state.pendingAction.action.type), character)
         THEN "character cannot block this action"
    ELSE "valid"

\* (mutant of block) the blocker is recorded, the character they claim is not
block_characterForgotten(state, blockerId, character) ==
    LET otherPlayers ==
            SelectSeq(playerIds(state), LAMBDA i : state.players[i].isAlive /\ i # blockerId)
    IN [state EXCEPT !.pendingAction =
            [@ EXCEPT !.phase = "challenge_block",
                      !.blockerId = blockerId,
                      !.waitingForPlayers = otherPlayers]]

\* block, for a call canBlock accepts
block(state, blockerId, character) ==
    LET otherPlayers ==
            SelectSeq(playerIds(state), LAMBDA i : state.players[i].isAlive /\ i # blockerId)
    IN [state EXCEPT !.pendingAction =
            [@ EXCEPT !.phase = "challenge_block",
                      !.blockerId = blockerId,
                      !.blockerCharacter = character,
                      !.waitingForPlayers = otherPlayers]]

\* (mutant of canPass) pass does not look whether an action is pending
canPass_unanswered(state, playerId) ==
    IF state.pendingAction # NoPending
       /\ ~includes(state.pendingAction.waitingForPlayers, playerId)
    THEN "Not waiting for this player"
    ELSE "valid"

\* the throws at the head of pass: the reason, or "valid"
canPass(state, playerId) ==
    IF state.pendingAction = NoPending THEN "No pending action"
    ELSE IF ~includes(state.pendingAction.waitingForPlayers, playerId)
         THEN "Not waiting for this player"
    ELSE "valid"

\* (mutant of pass) the last pass of the block round drops the action
pass_blockRoundPrevents(state, playerId, draw) ==
    LET waitingForPlayers == state.pendingAction.waitingForPlayers
        pphase == state.pendingAction.phase
        action == state.pendingAction.action
        newWaiting == SelectSeq(waitingForPlayers, LAMBDA id : id # playerId)
        canBlockPlayers ==
            SelectSeq(playerIds(state),
                      LAMBDA i : state.players[i].isAlive /\ i # action.playerId)
    IN
    IF Len(newWaiting) = 0 /\ pphase = "challenge_action"
    THEN IF Len(BLOCK_CHARACTERS(action.type)) > 0
         THEN [state EXCEPT !.pendingAction =
                  [@ EXCEPT !.phase = "block", !.waitingForPlayers = canBlockPlayers]]
         ELSE resolveAction(state, action, draw)
    ELSE IF Len(newWaiting) = 0 /\ pphase \in {"block", "challenge_block"}
    THEN nextTurn(state)
    ELSE [state EXCEPT !.pendingAction.waitingForPlayers = newWaiting]

\* (mutant of pass) no block round: the last pass of the challenge round resolves
pass_noBlockRound(state, playerId, draw) ==
    LET pphase == state.pendingAction.phase
        action == state.pendingAction.action
        newWaiting == SelectSeq(state.pendingAction.waitingForPlayers, LAMBDA id : id # playerId)
    IN
    IF Len(newWaiting) = 0 /\ pphase \in {"challenge_action", "block"}
    THEN resolveAction(state, action, draw)
    ELSE IF Len(newWaiting) = 0 /\ pphase = "challenge_block"
    THEN nextTurn(state)
    ELSE [state EXCEPT !.pendingAction.waitingForPlayers = newWaiting]

\* (mutant of pass) the last pass of the block round opens the challenge round again
pass_reopensChallengeRound(state, playerId, draw) ==
    LET pphase == state.pendingAction.phase
        action == state.pendingAction.action
        newWaiting == SelectSeq(state.pendingAction.waitingForPlayers, LAMBDA id : id # playerId)
        canBlockPlayers ==
            SelectSeq(playerIds(state),
                      LAMBDA i : state.players[i].isAlive /\ i # action.playerId)
    IN
    IF Len(newWaiting) = 0 /\ pphase = "challenge_action"
    THEN IF Len(BLOCK_CHARACTERS(action.type)) > 0
         THEN [state EXCEPT !.pendingAction =
                  [@ EXCEPT !.phase = "block", !.waitingForPlayers = canBlockPlayers]]
         ELSE resolveAction(state, action, draw)
    ELSE IF Len(newWaiting) = 0 /\ pphase = "block"
    THEN [state EXCEPT !.pendingAction =
             [@ EXCEPT !.phase = "challenge_action", !.waitingForPlayers = canBlockPlayers]]
    ELSE IF Len(newWaiting) = 0 /\ pphase = "challenge_block"
    THEN nextTurn(state)
    ELSE [state EXCEPT !.pendingAction.waitingForPlayers = newWaiting]

\* pass, for a call canPass accepts
pass(state, playerId, draw) ==
    LET waitingForPlayers == state.pendingAction.waitingForPlayers
        pphase == state.pendingAction.phase
        action == state.pendingAction.action
        newWaiting == SelectSeq(waitingForPlayers, LAMBDA id : id # playerId)
        blockableBy == BLOCK_CHARACTERS(action.type)
        canBlockPlayers ==
            SelectSeq(playerIds(state),
                      LAMBDA i : state.players[i].isAlive /\ i # action.playerId)
    IN
    IF Len(newWaiting) = 0 /\ pphase = "challenge_action"
    THEN IF Len(blockableBy) > 0
         THEN [state EXCEPT !.pendingAction =
                  [@ EXCEPT !.phase = "block", !.waitingForPlayers = canBlockPlayers]]
         ELSE resolveAction(state, action, draw)
    ELSE IF Len(newWaiting) = 0 /\ pphase = "block"
    THEN resolveAction(state, action, draw)
    ELSE IF Len(newWaiting) = 0 /\ pphase = "challenge_block"
    THEN nextTurn(state)
    ELSE [state EXCEPT !.pendingAction.waitingForPlayers = newWaiting]

\* What the GameState object handed to resolveAction holds after the call.
\* newState = { ...state, players: [...state.players] } copies the object and
\* the players array, but newState.deck is the very array of state.deck: the
\* two pops of case 'exchange' take their cards out of the caller's deck.
\* (players[i] and deck are only rebound on newState afterwards.)
resolveActionInput(state, action, draw) ==
    IF action.type = "exchange"
    THEN [state EXCEPT !.deck = bagRemove(bagRemove(state.deck, draw[1]), draw[2])]
    ELSE state

\* (mutant of startActionInput) the cost is written into the caller's state
\* before the action is validated
startActionInput_costFirst(state, action, draw) ==
    [state EXCEPT !.players[action.playerId].coins = @ - ACTION_COSTS(action.type)]

\* What the caller's GameState holds after startAction(state, action).  A
\* rejected call throws before anything is written; an accepted one works on
\* addLog's copy, whose deck array is still the caller's when income or coup
\* goes to resolveAction.
startActionInput(state, action, draw) ==
    IF canPerformAction(state, action) # "valid" THEN state
    ELSE IF action.type \in {"income", "coup"}
    THEN [state EXCEPT !.deck = resolveActionInput(deductCost(state, action), action, draw).deck]
    ELSE state

\* What the caller's GameState holds after challenge(state, challengerId).
\* When the accused holds the character, newState.deck is rebound to a fresh
\* shuffled array (line 228) before resolveAction runs; when a block is
\* refuted, resolveAction runs on a copy that still shares the caller's deck.
challengeInput(state, challengerId, newCard, draw) ==
    IF canChallenge(state, challengerId) # "valid" THEN state
    ELSE
      LET accused == accusedOf(state.pendingAction)
          hasCharacter ==
              includes(state.players[accused.targetId].influences, accused.claimedCharacter)
      IN IF ~hasCharacter /\ state.pendingAction.phase = "challenge_block"
         THEN [state EXCEPT !.deck =
                 resolveActionInput(loseInfluence(state, accused.targetId, NoChar),
                                    state.pendingAction.action, draw).deck]
         ELSE state

\* What the caller's GameState holds after block(state, blockerId, character):
\* block only reads state and spreads it into new objects.
blockInput(state, blockerId, character) == state

\* What the caller's GameState holds after pass(state, playerId): pass hands
\* the caller's own state object to resolveAction (lines 330, 333).
passInput(state, playerId, draw) ==
    IF canPass(state, playerId) # "valid" THEN state
    ELSE
      LET pphase == state.pendingAction.phase
          action == state.pendingAction.action
          newWaiting == SelectSeq(state.pendingAction.waitingForPlayers, LAMBDA id : id # playerId)
          resolves ==
              /\ Len(newWaiting) = 0
              /\ \/ pphase = "challenge_action" /\ Len(BLOCK_CHARACTERS(action.type)) = 0
                 \/ pphase = "block"
      IN IF resolves THEN resolveActionInput(state, action, draw) ELSE state

\* getValidActions, in the order the array is built
getValidActions(state) ==
    LET player == getCurrentPlayer(state)
        hasStealTarget ==
            \E i \in 1..Len(state.players) :
                /\ state.players[i].isAlive
                /\ i # state.currentPlayerIndex
                /\ state.players[i].coins > 0
    IN
    IF player.coins >= MustCoupCoins THEN <<"coup">>
    ELSE <<"income", "foreign_aid", "tax", "exchange">>
         \o (IF player.coins >= 3 THEN <<"assassinate">> ELSE <<>>)
         \o (IF player.coins >= 7 THEN <<"coup">> ELSE <<>>)
         \o (IF hasStealTarget THEN <<"steal">> ELSE <<>>)

\* getValidTargets: the ids of the players it returns, in array order
getValidTargets(state, actionType) ==
    IF actionType \notin {"coup", "assassinate", "steal"} THEN <<>>
    ELSE SelectSeq(playerIds(state),
            LAMBDA i : /\ state.players[i].isAlive
                       /\ i # state.currentPlayerIndex
                       /\ ~(actionType = "steal" /\ state.players[i].coins = 0))

-----------------------------------------------------------------------------
(* The state machine *)

\* the GameState the variables hold
State ==
    [players |-> players, deck |-> deck, currentPlayerIndex |-> currentPlayerIndex,
     pendingAction |-> pendingAction, winner |-> winner, phase |-> phase]

\* the call returns: its result is the new GameState
Returns(state) ==
    /\ players' = state.players
    /\ deck' = state.deck
    /\ currentPlayerIndex' = state.currentPlayerIndex
    /\ pendingAction' = state.pendingAction
    /\ winner' = state.winner
    /\ phase' = state.phase

PlayerId == 1..Len(players)

NoDraw == <<NoChar, NoChar>>

\* the pairs of cards two pops can take from a deck
Draws(bag) ==
    {d \in Character \X Character : bag[d[1]] >= 1 /\ bagRemove(bag, d[1])[d[2]] >= 1}

\* the draws resolveAction may make for an action on a deck: only exchange pops
DrawsFor(type, bag) == IF type = "exchange" THEN Draws(bag) ELSE {NoDraw}

\* every player's coins, in array order
coinsOf(state) == [i \in 1..Len(state.players) |-> state.players[i].coins]

\* the call is recorded: who called what on which action (target = the accused
\* of a challenge, the actor of a block or pass), the pending phase and every
\* player's coins before the call, for a challenge whether the accused held
\* the claimed character, and whether the caller was in waitingForPlayers
Called(op, by, type, target, pphase, held) ==
    /\ last' = [op |-> op, by |-> by, type |-> type, target |-> target,
                phase |-> pphase, held |-> held, coins |-> coinsOf(State),
                awaited |-> /\ pendingAction # NoPending
                            /\ includes(pendingAction.waitingForPlayers, by)]
    /\ moves' = moves + 1
    /\ UNCHANGED <<clients, rummy>>

\* every awaited player passes, first in waitingForPlayers first, until none is awaited
RECURSIVE passAll(_)
passAll(state) ==
    IF state.pendingAction # NoPending /\ Len(state.pendingAction.waitingForPlayers) > 0
    THEN passAll(pass(state, state.pendingAction.waitingForPlayers[1], NoDraw))
    ELSE state

\* the player whose turn it is takes tax and nobody objects; a rejected call changes nothing
taxTurn(state) ==
    LET action == [type |-> "tax", playerId |-> state.currentPlayerIndex, targetId |-> NoPlayer]
    IN IF canPerformAction(state, action) = "valid"
       THEN passAll(startAction(state, action, NoDraw))
       ELSE state

RECURSIVE taxTurns(_, _)
taxTurns(state, k) == IF k = 0 THEN state ELSE taxTurns(taxTurn(state), k - 1)

\* the game after `rounds` opening rounds
opening(state, rounds) == taxTurns(state, rounds * Len(state.players))

Init ==
    \E g \in 1..NumGames, rounds \in 0..OpeningRounds :
        LET n == Games[g].n
            created == createGame(n, Games[g].shuffled)
            state == opening(created, rounds)
        IN
        /\ n \in MinPlayers..MaxPlayers
        /\ bagOfSeq(Games[g].shuffled) = bagOfSeq(createDeckCards)
        /\ players = state.players
        /\ deck = state.deck
        /\ currentPlayerIndex = state.currentPlayerIndex
        /\ pendingAction = state.pendingAction
        /\ winner = state.winner
        /\ phase = state.phase
        /\ last = IF rounds = 0
                  THEN [op |-> "createGame", by |-> NoPlayer, type |-> "null",
                        target |-> NoPlayer, phase |-> "null", held |-> FALSE,
                        coins |-> coinsOf(created), awaited |-> FALSE]
                  ELSE [op |-> "pass", by |-> n - 1, type |-> "tax",
                        target |-> n, phase |-> "challenge_action", held |-> FALSE,
                        coins |-> [coinsOf(state) EXCEPT ![n] = @ - 3], awaited |-> TRUE]
        /\ moves = 0
        /\ clients = <<>>
        /\ rummy = NoRummy

\* startAction(state, {type, playerId, targetId}) is accepted
StartAction ==
    \E playerId \in PlayerId, type \in ActionType, targetId \in PlayerId \cup {NoPlayer} :
        LET action == [type |-> type, playerId |-> playerId, targetId |-> targetId] IN
        /\ moves + Len(players) < MaxMoves + MinPlayers
        /\ targetId # NoPlayer <=> type \in {"coup", "assassinate", "steal"}
        /\ canPerformAction(State, action) = "valid"
        /\ \E draw \in {NoDraw} : Returns(startAction(State, action, draw))
        /\ Called("startAction", playerId, type, targetId, "null", FALSE)

\* challenge(state, challengerId) is accepted
Challenge ==
    \E challengerId \in PlayerId :
        /\ moves + Len(players) < MaxMoves + MinPlayers
        /\ canChallenge(State, challengerId) = "valid"
        /\ LET accused == accusedOf(pendingAction)
               held == includes(players[accused.targetId].influences, accused.claimedCharacter)
               type == pendingAction.action.type
           IN
           /\ \E newCard \in IF held
                             THEN {c \in Character : bagAdd(deck, accused.claimedCharacter)[c] >= 1}
                             ELSE {NoChar} :
                \E draw \in DrawsFor(type,
                                IF held
                                THEN bagRemove(bagAdd(deck, accused.claimedCharacter), newCard)
                                ELSE deck) :
                    Returns(challenge(State, challengerId, newCard, draw))
           /\ Called("challenge", challengerId, type, accused.targetId, pendingAction.phase, held)

\* block(state, blockerId, character) is accepted
Block ==
    \E blockerId \in PlayerId, character \in Character :
        /\ moves + Len(players) < MaxMoves + MinPlayers
        /\ canBlock(State, blockerId, character) = "valid"
        /\ Returns(block(State, blockerId, character))
        /\ Called("block", blockerId, pendingAction.action.type, pendingAction.action.playerId,
                  pendingAction.phase, FALSE)

\* pass(state, playerId) is accepted
Pass ==
    \E playerId \in PlayerId :
        /\ moves + Len(players) < MaxMoves + MinPlayers
        /\ canPass(State, playerId) = "valid"
        /\ \E draw \in DrawsFor(pendingAction.action.type, deck) :
               Returns(pass(State, playerId, draw))
        /\ Called("pass", playerId, pendingAction.action.type, pendingAction.action.playerId,
                  pendingAction.phase, FALSE)

Next == StartAction \/ Challenge \/ Block \/ Pass

Spec == Init /\ [][Next]_vars

-----------------------------------------------------------------------------
(* createGame on its own: from no game, one call with 0..MaxNames names on   *)
(* any cut of the decks listed in Games                                      *)

InitCreateGame ==
    /\ players = <<>>
    /\ deck = EmptyBag
    /\ currentPlayerIndex = 0
    /\ pendingAction = NoPending
    /\ winner = NoPlayer
    /\ phase = "lobby"
    /\ last = [op |-> "none", names |-> 0, error |-> "valid"]
    /\ moves = 0
    /\ clients = <<>>
    /\ rummy = NoRummy

\* createGame(playerNames) returns the new game
CreateGame ==
    \E n \in 0..MaxNames, g \in 1..NumGames, r \in 0..(Len(createDeckCards) - 1) :
        /\ moves = 0
        /\ canCreateGame(n) = "valid"
        /\ bagOfSeq(Games[g].shuffled) = bagOfSeq(createDeckCards)
        /\ Returns(createGame(n, rotate(Games[g].shuffled, r)))
        /\ last' = [op |-> "createGame", names |-> n, error |-> "valid"]
        /\ moves' = 1
        /\ UNCHANGED <<clients, rummy>>

\* createGame(playerNames) throws: nothing is returned, there is no game
CreateGameThrows ==
    \E n \in 0..MaxNames :
        /\ moves = 0
        /\ canCreateGame(n) # "valid"
        /\ UNCHANGED <<players, deck, currentPlayerIndex, pendingAction, winner, phase>>
        /\ last' = [op |-> "createGame", names |-> n, error |-> canCreateGame(n)]
        /\ moves' = 1
        /\ UNCHANGED <<clients, rummy>>

NextCreateGame == CreateGame \/ CreateGameThrows

SpecCreateGame == InitCreateGame /\ [][NextCreateGame]_vars

-----------------------------------------------------------------------------
(* Timeouts.  The engine has no clock: a player who does not answer is       *)
(* passed for by the caller.  SpecTimeouts is Spec with one more step: from  *)
(* a state with an action in flight and no winner the caller stops taking    *)
(* answers and passes for every awaited player, one pass per step, and does  *)
(* nothing else from then on.  From the first such pass on, last counts the  *)
(* passes and remembers how many living players other than the actor there   *)
(* were and whose turn it was.                                               *)

TimeoutPass ==
    \E playerId \in PlayerId :
        /\ pendingAction # NoPending
        /\ last.op = "timeout" \/ winner = NoPlayer
        /\ canPass(State, playerId) = "valid"
        /\ \E draw \in DrawsFor(pendingAction.action.type, deck) :
               Returns(pass(State, playerId, draw))
        /\ last' = IF last.op = "timeout"
                   THEN [last EXCEPT !.by = playerId, !.passes = @ + 1]
                   ELSE [op |-> "timeout", by |-> playerId, passes |-> 1,
                         others |-> Cardinality({i \in PlayerId :
                                        players[i].isAlive /\ i # pendingAction.action.playerId}),
                         turn |-> currentPlayerIndex]
        /\ UNCHANGED <<moves, clients, rummy>>

NextTimeouts ==
    \/ last.op # "timeout" /\ moves < MaxAnswered /\ Next
    \/ TimeoutPass

\* a pass that is due is made: the caller injects it when the player does not
SpecTimeouts == Init /\ [][NextTimeouts]_vars /\ WF_vars(TimeoutPass)

-----------------------------------------------------------------------------
(* The multiplayer layer: MultiplayerGame (src/unnamed/part_008).  Client c  *)
(* plays player c.  A handler applies the engine to the client's own         *)
(* gameState; updateGameState sets that gameState at once and sends an       *)
(* update of the room's row, which overwrites game_state whatever it holds;  *)
(* every update of the row is published to every subscribed client.          *)

NoUpdate == [game_state |-> "null"]

Client == DOMAIN clients

\* the room after startGame, every client having fetched it
InitMultiplayer ==
    \E g \in 1..NumGames, rounds \in 0..OpeningRounds :
        LET n == Games[g].n
            state == opening(createGame(n, Games[g].shuffled), rounds)
        IN
        /\ canCreateGame(n) = "valid"
        /\ players = state.players
        /\ deck = state.deck
        /\ currentPlayerIndex = state.currentPlayerIndex
        /\ pendingAction = state.pendingAction
        /\ winner = state.winner
        /\ phase = state.phase
        /\ last = [op |-> "startGame", by |-> NoPlayer]
        /\ moves = 0
        /\ clients = [c \in 1..n |->
                         [gameState |-> state, update |-> NoUpdate, changes |-> <<>>]]
        /\ rummy = NoRummy

\* updateGameState(newState): setGameState(newState), then the update is sent;
\* `from` remembers the gameState the handler computed newState from
updateGameState(c, newState, handler) ==
    /\ moves < MaxWrites
    /\ clients[c].update = NoUpdate
    /\ clients' = [clients EXCEPT ![c] =
            [gameState |-> newState,
             update |-> [game_state |-> newState, from |-> clients[c].gameState],
             changes |-> clients[c].changes]]
    /\ last' = [op |-> handler, by |-> c]
    /\ moves' = moves + 1
    /\ UNCHANGED <<players, deck, currentPlayerIndex, pendingAction, winner, phase, rummy>>

\* handleAction: startAction on the client's gameState; a throw is only a toast
handleAction ==
    \E c \in Client, type \in ActionType, targetId \in Client \cup {NoPlayer} :
        LET gameState == clients[c].gameState
            action == [type |-> type, playerId |-> c, targetId |-> targetId]
        IN
        /\ targetId # NoPlayer <=> type \in {"coup", "assassinate", "steal"}
        /\ canPerformAction(gameState, action) = "valid"
        /\ updateGameState(c, startAction(gameState, action, NoDraw), "handleAction")

\* handleChallenge
handleChallenge ==
    \E c \in Client :
        LET gameState == clients[c].gameState IN
        /\ canChallenge(gameState, c) = "valid"
        /\ LET accused == accusedOf(gameState.pendingAction)
               held == includes(gameState.players[accused.targetId].influences,
                                accused.claimedCharacter)
               shuffledBack == bagAdd(gameState.deck, accused.claimedCharacter)
           IN
           \E newCard \in IF held THEN {k \in Character : shuffledBack[k] >= 1} ELSE {NoChar} :
             \E draw \in DrawsFor(gameState.pendingAction.action.type,
                                  IF held THEN bagRemove(shuffledBack, newCard)
                                  ELSE gameState.deck) :
                updateGameState(c, challenge(gameState, c, newCard, draw), "handleChallenge")

\* handleBlock
handleBlock ==
    \E c \in Client, character \in Character :
        LET gameState == clients[c].gameState IN
        /\ canBlock(gameState, c, character) = "valid"
        /\ updateGameState(c, block(gameState, c, character), "handleBlock")

\* handlePass
handlePass ==
    \E c \in Client :
        LET gameState == clients[c].gameState IN
        /\ canPass(gameState, c) = "valid"
        /\ \E draw \in DrawsFor(gameState.pendingAction.action.type, gameState.deck) :
               updateGameState(c, pass(gameState, c, draw), "handlePass")

\* the update of client c reaches the database: game_state of the room is
\* overwritten, and the change is published to every client of the room
updateArrives ==
    \E c \in Client :
        /\ clients[c].update # NoUpdate
        /\ Returns(clients[c].update.game_state)
        /\ clients' = [d \in Client |->
                [gameState |-> clients[d].gameState,
                 update |-> IF d = c THEN NoUpdate ELSE clients[d].update,
                 changes |-> Append(clients[d].changes, clients[c].update.game_state)]]
        /\ UNCHANGED <<last, moves, rummy>>

\* the postgres_changes callback of client c: setGameState(newRoom.game_state)
changeReceived ==
    \E c \in Client :
        /\ clients[c].changes # <<>>
        /\ clients' = [clients EXCEPT ![c] =
                [gameState |-> Head(clients[c].changes),
                 update |-> clients[c].update,
                 changes |-> Tail(clients[c].changes)]]
        /\ UNCHANGED <<players, deck, currentPlayerIndex, pendingAction, winner, phase,
                       last, moves, rummy>>

NextMultiplayer ==
    handleAction \/ handleChallenge \/ handleBlock \/ handlePass \/ updateArrives \/ changeReceived

SpecMultiplayer == InitMultiplayer /\ [][NextMultiplayer]_vars

-----------------------------------------------------------------------------
(* The rummy engine (src/src/lib/rummy/rummyTypes.ts).  A call the engine     *)
(* rejects returns the state it was given.                                   *)

\* createDeck: two decks of 52 cards and 4 printed jokers
RummyDeckSize == 108
\* createRummyGame deals 13 cards to each player
RummyHandSize == 13

createRummyPlayer ==
    [cards |-> 0, hasDropped |-> FALSE, hasDeclared |-> FALSE, isActive |-> TRUE,
     isTurn |-> FALSE]

\* createRummyGame for n players: the open joker, 13 cards each, one discard
createRummyGame(n) ==
    [players |-> [i \in 1..n |->
                    [createRummyPlayer EXCEPT !.cards = RummyHandSize, !.isTurn = (i = 1)]],
     deck |-> RummyDeckSize - 1 - RummyHandSize * n - 1,
     discardPile |-> 1,
     currentPlayerIndex |-> 1,
     phase |-> "playing",
     winner |-> NoPlayer,
     lastAction |-> "null",
     hasDrawn |-> FALSE]

\* state.players.findIndex(p => p.id === playerId) found a player whose turn it is
isTurnOf(state, playerId) ==
    playerId \in DOMAIN state.players /\ state.players[playerId].isTurn

drawFromDeck(state, playerId) ==
    IF state.phase # "playing" \/ state.hasDrawn \/ ~isTurnOf(state, playerId) THEN state
    ELSE
      LET reshuffled ==
              IF state.deck = 0
              THEN [state EXCEPT !.deck = Max(state.discardPile - 1, 0),
                                 !.discardPile = Min(state.discardPile, 1)]
              ELSE state
      IN [reshuffled EXCEPT !.deck = Max(@ - 1, 0),
                            !.players[playerId].cards = @ + 1,
                            !.hasDrawn = TRUE,
                            !.lastAction = "draw-deck"]

drawFromDiscard(state, playerId) ==
    IF state.phase # "playing" \/ state.hasDrawn \/ state.discardPile = 0
       \/ ~isTurnOf(state, playerId)
    THEN state
    ELSE [state EXCEPT !.discardPile = @ - 1,
                       !.players[playerId].cards = @ + 1,
                       !.hasDrawn = TRUE,
                       !.lastAction = "draw-discard"]

\* the loop of findNextActivePlayer, i tries left, index the seat looked at
RECURSIVE findNextFrom(_, _, _, _)
findNextFrom(rplayers, currentIndex, index, i) ==
    IF i = 0 THEN currentIndex
    ELSE IF rplayers[index].isActive /\ ~rplayers[index].hasDropped THEN index
    ELSE findNextFrom(rplayers, currentIndex, (index % Len(rplayers)) + 1, i - 1)

findNextActivePlayer(rplayers, currentIndex) ==
    findNextFrom(rplayers, currentIndex, (currentIndex % Len(rplayers)) + 1, Len(rplayers))

\* the players still in the game
activePlayers(rplayers) ==
    SelectSeq([i \in 1..Len(rplayers) |-> i],
              LAMBDA i : rplayers[i].isActive /\ ~rplayers[i].hasDropped)

\* cardIndex is an index of the hand from 0
discardCard(state, playerId, cardIndex) ==
    IF state.phase # "playing" \/ ~state.hasDrawn \/ ~isTurnOf(state, playerId) THEN state
    ELSE IF cardIndex < 0 \/ cardIndex >= state.players[playerId].cards THEN state
    ELSE
      LET noTurn == [i \in 1..Len(state.players) |->
                        [state.players[i] EXCEPT
                            !.cards = IF i = playerId THEN @ - 1 ELSE @,
                            !.isTurn = FALSE]]
          nextPlayerIndex == findNextActivePlayer(noTurn, playerId)
      IN [state EXCEPT !.players = [noTurn EXCEPT ![nextPlayerIndex].isTurn = TRUE],
                       !.discardPile = @ + 1,
                       !.hasDrawn = FALSE,
                       !.currentPlayerIndex = nextPlayerIndex,
                       !.lastAction = "discard"]

dropFromGame(state, playerId) ==
    IF state.phase # "playing" \/ ~isTurnOf(state, playerId) THEN state
    ELSE
      LET dropped == [state.players EXCEPT ![playerId].hasDropped = TRUE,
                                           ![playerId].isTurn = FALSE]
          left == activePlayers(dropped)
          nextPlayerIndex == findNextActivePlayer(dropped, playerId)
      IN
      IF Len(left) = 1
      THEN [state EXCEPT !.players = dropped, !.winner = left[1], !.phase = "finished"]
      ELSE [state EXCEPT !.players = [dropped EXCEPT ![nextPlayerIndex].isTurn = TRUE],
                         !.currentPlayerIndex = nextPlayerIndex,
                         !.hasDrawn = FALSE,
                         !.lastAction = "drop"]

\* valid is the verdict of isValidDeclaration on the melds handed in
declareGame(state, playerId, valid) ==
    IF state.phase # "playing" \/ ~isTurnOf(state, playerId) \/ ~state.hasDrawn THEN state
    ELSE IF valid
    THEN [state EXCEPT !.winner = playerId,
                       !.phase = "finished",
                       !.players[playerId].hasDeclared = TRUE,
                       !.lastAction = "declare"]
    ELSE
      \* { ...player, hasDeclared: true, hasDropped: true, points: 80 }: isTurn is kept
      LET penalised == [state.players EXCEPT ![playerId].hasDeclared = TRUE,
                                             ![playerId].hasDropped = TRUE]
          left == activePlayers(penalised)
          nextPlayerIndex == findNextActivePlayer(penalised, playerId)
      IN
      IF Len(left) = 1
      THEN [state EXCEPT !.players = penalised, !.winner = left[1], !.phase = "finished",
                         !.lastAction = "declare"]
      ELSE [state EXCEPT !.players = [penalised EXCEPT ![nextPlayerIndex].isTurn = TRUE],
                         !.currentPlayerIndex = nextPlayerIndex,
                         !.hasDrawn = FALSE,
                         !.lastAction = "declare"]

RummyPlayerId == DOMAIN rummy.players

InitRummy ==
    \E n \in MinPlayers..MaxRummyPlayers :
        /\ rummy = createRummyGame(n)
        /\ players = <<>>
        /\ deck = EmptyBag
        /\ currentPlayerIndex = 0
        /\ pendingAction = NoPending
        /\ winner = NoPlayer
        /\ phase = "lobby"
        /\ last = [op |-> "createRummyGame", by |-> NoPlayer]
        /\ moves = 0
        /\ clients = <<>>

\* a call of the rummy engine by playerId, accepted or not
RummyCalled(op, playerId, newState) ==
    /\ moves < MaxRummyCalls
    /\ rummy' = newState
    /\ last' = [op |-> op, by |-> playerId]
    /\ moves' = moves + 1
    /\ UNCHANGED <<players, deck, currentPlayerIndex, pendingAction, winner, phase, clients>>

DrawFromDeck ==
    \E playerId \in RummyPlayerId :
        RummyCalled("drawFromDeck", playerId, drawFromDeck(rummy, playerId))

DrawFromDiscard ==
    \E playerId \in RummyPlayerId :
        RummyCalled("drawFromDiscard", playerId, drawFromDiscard(rummy, playerId))

DiscardCard ==
    \E playerId \in RummyPlayerId :
        \E cardIndex \in {-1, 0, rummy.players[playerId].cards} :
            RummyCalled("discardCard", playerId, discardCard(rummy, playerId, cardIndex))

DropFromGame ==
    \E playerId \in RummyPlayerId :
        RummyCalled("dropFromGame", playerId, dropFromGame(rummy, playerId))

DeclareGame ==
    \E playerId \in RummyPlayerId, valid \in BOOLEAN :
        RummyCalled("declareGame", playerId, declareGame(rummy, playerId, valid))

NextRummy == DrawFromDeck \/ DrawFromDiscard \/ DiscardCard \/ DropFromGame \/ DeclareGame

SpecRummy == InitRummy /\ [][NextRummy]_vars

-----------------------------------------------------------------------------
(* Vocabulary of the properties *)

RECURSIVE sumSeq(_)
sumSeq(s) == IF s = <<>> THEN 0 ELSE Head(s) + sumSeq(Tail(s))

coins == coinsOf(State)
TotalCoins == sumSeq(coins)
hidden(i) == Len(players[i].influences)
AliveIds == {i \in PlayerId : players[i].isAlive}

\* the step is an accepted call of `op`
Step(op) == last'.op = op

\* the step resolves an action of kind `type`: income and coup on startAction;
\* otherwise the last awaited pass of the block phase (of the challenge phase
\* when the kind has no block), a failed challenge of the action, or a
\* successful challenge of its block
Resolves(type) ==
    \/ /\ Step("startAction")
       /\ last'.type = type
       /\ type \in {"income", "coup"}
    \/ /\ Step("pass")
       /\ pendingAction.action.type = type
       /\ Len(pendingAction.waitingForPlayers) = 1
       /\ \/ pendingAction.phase = "block"
          \/ pendingAction.phase = "challenge_action" /\ BLOCK_CHARACTERS(type) = <<>>
    \/ /\ Step("challenge")
       /\ pendingAction.action.type = type
       /\ \/ pendingAction.phase = "challenge_action" /\ last'.held
          \/ pendingAction.phase = "challenge_block" /\ ~last'.held

-----------------------------------------------------------------------------
(* C1: every accepted call changes the sum of all coins by exactly +1 (income *)
(* resolves), +2 (foreign aid resolves), +3 (tax resolves), -7 (coup is      *)
(* declared), -3 (assassinate is declared) or 0 (anything else, a resolved   *)
(* steal included), and no player's coins are ever negative.                 *)
C1_CoinDeltas ==
    /\ [](\A i \in PlayerId : players[i].coins >= 0)
    /\ [][TotalCoins' - TotalCoins =
            CASE Step("startAction") /\ last'.type = "coup" -> -7
              [] Step("startAction") /\ last'.type = "assassinate" -> -3
              [] Resolves("income") -> 1
              [] Resolves("foreign_aid") -> 2
              [] Resolves("tax") -> 3
              [] OTHER -> 0]_vars

\* a steal has resolved: coins moved between two players and the sum is the same
C1_Witness ==
    /\ last.op = "pass"
    /\ last.type = "steal"
    /\ pendingAction = NoPending
    /\ coins # last.coins
    /\ TotalCoins = sumSeq(last.coins)

(* C2: every player holds 0, 1 or 2 hidden influences and is alive exactly   *)
(* when that number is greater than 0.                                       *)
C2_InfluenceCount ==
    \A i \in PlayerId :
        /\ hidden(i) \in 0..2
        /\ players[i].isAlive <=> hidden(i) > 0

(* C3: exactly one player is alive, winner is set, and phase is 'finished'   *)
(* hold together or not at all, and the winner is then that living player.   *)
C3_WinnerCoincides ==
    /\ Cardinality(AliveIds) = 1 <=> winner # NoPlayer
    /\ winner # NoPlayer <=> phase = "finished"
    /\ winner # NoPlayer => AliveIds = {winner}

(* C4: once winner is set no call is accepted any more, so the state never   *)
(* changes again.                                                            *)
C4_NoMoveAfterWinner == [][winner # NoPlayer => UNCHANGED vars]_vars

(* C5: when a challenge meets an accused who holds the claimed character,    *)
(* the accused keeps the same number of hidden influences, the challenger    *)
(* has one less, and the accused's claimed card is back in the deck with one *)
(* card drawn in its place.                                                  *)
C5_FailedChallenge ==
    [][Step("challenge") /\ last'.held =>
        LET accused == last'.target
            challenger == last'.by
            claimed == accusedOf(pendingAction).claimedCharacter
            at == indexOf(players[accused].influences, claimed) + 1
        IN
        /\ Len(players'[accused].influences) = hidden(accused)
        /\ Len(players'[challenger].influences) = hidden(challenger) - 1
        /\ \E newCard \in Character :
             /\ deck' = bagRemove(bagAdd(deck, claimed), newCard)
             /\ players'[accused].influences =
                    [players[accused].influences EXCEPT ![at] = newCard]]_vars

(* C6: the deck, the hidden influences and the revealed influences together  *)
(* always hold exactly 3 copies of each of the 5 characters.                 *)
C6_CardsConserved ==
    LET held == [i \in PlayerId |->
                    bagPlus(bagOfSeq(players[i].influences),
                            bagOfSeq(players[i].revealedInfluences))]
    IN \A c \in Character :
         deck[c] + sumSeq([i \in PlayerId |-> held[i][c]]) = CopiesPerCharacter

(* C7: a challenge in challenge_action phase decides the action.  If the     *)
(* actor does not hold the claimed character, the actor loses an influence,  *)
(* no coins move, the target is untouched, the action is gone (it can never  *)
(* be applied) and the turn has advanced; if the actor holds it, the effect  *)
(* of the action is applied.                                                 *)
C7_ChallengeDecidesAction ==
    [][Step("challenge") /\ last'.phase = "challenge_action" =>
        LET action == pendingAction.action
            actor == action.playerId
            target == action.targetId
            challenger == last'.by
            left == IF target = challenger THEN hidden(target) - 1 ELSE hidden(target)
        IN
        IF ~last'.held
        THEN /\ Len(players'[actor].influences) = hidden(actor) - 1
             /\ coins' = coins
             /\ target # NoPlayer => players'[target] = players[target]
             /\ pendingAction' = NoPending
             /\ currentPlayerIndex' # currentPlayerIndex
        ELSE CASE action.type = "tax" ->
                    players'[actor].coins = players[actor].coins + 3
               [] action.type = "steal" ->
                    /\ players'[actor].coins =
                          players[actor].coins + Min(2, players[target].coins)
                    /\ players'[target].coins =
                          players[target].coins - Min(2, players[target].coins)
               [] action.type = "assassinate" ->
                    Len(players'[target].influences) = Max(0, left - 1)
               [] OTHER ->
                    Len(players'[actor].influences) =
                        IF actor = challenger THEN hidden(actor) - 1 ELSE hidden(actor)]_vars

(* C8: whenever the player whose turn it is holds 10 or more coins,          *)
(* getValidActions is exactly <<coup>> and startAction accepts no other kind *)
(* of action from that player.                                               *)
C8_ForcedCoup ==
    /\ [](getCurrentPlayer(State).coins >= 10 =>
            /\ getValidActions(State) = <<"coup">>
            /\ \A type \in ActionType \ {"coup"}, targetId \in PlayerId \cup {NoPlayer} :
                 canPerformAction(State, [type |-> type, playerId |-> currentPlayerIndex,
                                          targetId |-> targetId]) # "valid")
    /\ [][Step("startAction") /\ players[last'.by].coins >= 10 => last'.type = "coup"]_vars

\* a player who held 10 or more coins has declared a coup (7 paid, 3 or more left)
C8_Witness ==
    /\ last.op = "startAction"
    /\ last.type = "coup"
    /\ last.coins[last.by] >= 10
    /\ players[last.by].coins = last.coins[last.by] - 7

(* C9: startAction takes 7 coins for a coup and 3 for an assassination at    *)
(* the moment it accepts the action, and no call made while the              *)
(* assassination is pending (challenge, block, pass) gives them back.        *)
C9_CostNeverRefunded ==
    [][/\ Step("startAction") /\ last'.type = "coup" =>
            players'[last'.by].coins = players[last'.by].coins - 7
       /\ Step("startAction") /\ last'.type = "assassinate" =>
            players'[last'.by].coins = players[last'.by].coins - 3
       /\ pendingAction # NoPending /\ pendingAction.action.type = "assassinate" =>
            players'[pendingAction.action.playerId].coins =
                players[pendingAction.action.playerId].coins]_vars

\* an assassination was challenged and the actor did not hold the Assassin:
\* the 3 coins paid are not back
C9_Witness ==
    /\ last.op = "challenge"
    /\ last.type = "assassinate"
    /\ last.phase = "challenge_action"
    /\ ~last.held
    /\ pendingAction = NoPending
    /\ players[last.target].coins = last.coins[last.target]

(* C10: a steal that resolves moves exactly min(2, the target's coins) from  *)
(* the target to the actor: the target stays at 0 or more, the actor gains   *)
(* what the target loses, nobody else's coins change.                        *)
C10_StealTransfers ==
    [][Resolves("steal") =>
        LET actor == pendingAction.action.playerId
            target == pendingAction.action.targetId
            stolen == Min(2, players[target].coins)
        IN
        /\ players'[target].coins = players[target].coins - stolen
        /\ players'[actor].coins = players[actor].coins + stolen
        /\ players'[target].coins >= 0
        /\ \A i \in PlayerId \ {actor, target} : players'[i].coins = players[i].coins]_vars

\* a steal from a target holding 1 coin has resolved: the target is at 0 and
\* the actor has 1 more
C10_Witness ==
    /\ last.op = "pass"
    /\ last.type = "steal"
    /\ last.phase = "block"
    /\ pendingAction = NoPending
    /\ \E target \in PlayerId \ {last.target} :
         /\ last.coins[target] = 1
         /\ players[target].coins = 0
         /\ players[last.target].coins = last.coins[last.target] + 1

\* the startAction call recorded in last'
lastAction == [type |-> last'.type, playerId |-> last'.by, targetId |-> last'.target]

C12_InputUntouched ==
    [][/\ Step("startAction") => startActionInput(State, lastAction, NoDraw) = State
       /\ Step("challenge") =>
            \A draw \in DrawsFor(pendingAction.action.type, deck) :
                challengeInput(State, last'.by, NoChar, draw) = State
       /\ Step("block") =>
            \A character \in Character : blockInput(State, last'.by, character) = State
       /\ Step("pass") =>
            \A draw \in DrawsFor(pendingAction.action.type, deck) :
                passInput(State, last'.by, draw) = State]_vars

(* C13: an unconstrained turn and an action in flight exclude each other.    *)
(* While a PendingAction exists startAction is rejected for every player;    *)
(* while none exists challenge, block and pass are rejected for every player *)
(* and startAction is accepted only from the living player at                *)
(* currentPlayerIndex; and the accepted calls are of these kinds only.       *)
C13_TurnOrPending ==
    /\ [](\A playerId \in PlayerId :
            /\ \A type \in ActionType, targetId \in PlayerId \cup {NoPlayer} :
                 LET action == [type |-> type, playerId |-> playerId, targetId |-> targetId] IN
                 canPerformAction(State, action) = "valid" =>
                     /\ pendingAction = NoPending
                     /\ playerId = currentPlayerIndex
                     /\ players[playerId].isAlive
            /\ pendingAction = NoPending =>
                 /\ canChallenge(State, playerId) # "valid"
                 /\ canPass(State, playerId) # "valid"
                 /\ \A character \in Character : canBlock(State, playerId, character) # "valid")
    /\ [][/\ Step("startAction") =>
               /\ pendingAction = NoPending
               /\ last'.by = currentPlayerIndex
               /\ players[last'.by].isAlive
          /\ Step("challenge") \/ Step("block") \/ Step("pass") =>
               pendingAction # NoPending]_vars

\* an action went through its rounds and resolved: nothing is pending, the
\* next player may start an action and the player who just passed may not
C13_Witness ==
    /\ moves > 0
    /\ last.op = "pass"
    /\ pendingAction = NoPending
    /\ winner = NoPlayer
    /\ last.by # currentPlayerIndex
    /\ canPerformAction(State, [type |-> "income", playerId |-> currentPlayerIndex,
                                targetId |-> NoPlayer]) = "valid"
    /\ canPerformAction(State, [type |-> "income", playerId |-> last.by,
                                targetId |-> NoPlayer]) = "Not your turn"

(* C14: whenever an action is pending, waitingForPlayers holds only players  *)
(* that are alive, never the acting player, and in challenge_block phase     *)
(* never the blocker.                                                        *)
C14_WaitingForPlayers ==
    pendingAction # NoPending =>
        \A i \in Range(pendingAction.waitingForPlayers) :
            /\ players[i].isAlive
            /\ i # pendingAction.action.playerId
            /\ pendingAction.phase = "challenge_block" => i # pendingAction.blockerId

(* C15: block is accepted only from a legal blocker.  Whenever block accepts *)
(* a call, the blocker is alive and is not the actor, and for assassinate    *)
(* and steal the blocker is the target of the action.                        *)
C15_LegalBlocker ==
    \A blockerId \in PlayerId, character \in Character :
        canBlock(State, blockerId, character) = "valid" =>
            /\ players[blockerId].isAlive
            /\ blockerId # pendingAction.action.playerId
            /\ pendingAction.action.type \in {"assassinate", "steal"} =>
                   blockerId = pendingAction.action.targetId

(* C16: a challenge is accepted only from a living player other than the     *)
(* accused: never from the actor in challenge_action phase, never from the   *)
(* blocker in challenge_block phase.                                         *)
C16_NoSelfChallenge ==
    \A challengerId \in PlayerId :
        canChallenge(State, challengerId) = "valid" =>
            /\ players[challengerId].isAlive
            /\ challengerId # accusedOf(pendingAction).targetId

(* C17: challenge is accepted exactly while the pending action is in         *)
(* challenge_action or challenge_block phase and the challenger is alive: it *)
(* is rejected in block phase and when nothing is pending, and within the    *)
(* two challenge phases it does not matter whether the challenger is still   *)
(* in waitingForPlayers.                                                     *)
C17_ChallengePhases ==
    /\ [](\A challengerId \in PlayerId :
            canChallenge(State, challengerId) = "valid" <=>
                /\ pendingAction # NoPending
                /\ pendingAction.phase \in {"challenge_action", "challenge_block"}
                /\ players[challengerId].isAlive)
    /\ [][Step("challenge") =>
            /\ pendingAction # NoPending
            /\ pendingAction.phase \in {"challenge_action", "challenge_block"}
            /\ players[last'.by].isAlive]_vars

\* a player who had already passed on the action challenged it after all
C17_Witness ==
    /\ last.op = "challenge"
    /\ last.phase = "challenge_action"
    /\ ~last.awaited
    /\ last.by # last.target

\* the pairs (action kind, character) of a permitted block
PermittedBlocks ==
    {<<"foreign_aid", "Duke">>, <<"assassinate", "Contessa">>,
     <<"steal", "Captain">>, <<"steal", "Ambassador">>}

(* C18: block is accepted exactly from a living player, in challenge_action  *)
(* or block phase, with a character permitted for the pending action kind    *)
(* (Duke for foreign aid, Contessa for assassinate, Captain or Ambassador    *)
(* for steal; nothing blocks tax or exchange).  An accepted block puts the   *)
(* pending action in challenge_block phase, records the blocker and the      *)
(* claimed character, and changes nothing else of the game.                  *)
C18_BlockCharacters ==
    /\ [](\A blockerId \in PlayerId, character \in Character :
            canBlock(State, blockerId, character) = "valid" <=>
                /\ pendingAction # NoPending
                /\ players[blockerId].isAlive
                /\ pendingAction.phase \in {"block", "challenge_action"}
                /\ <<pendingAction.action.type, character>> \in PermittedBlocks)
    /\ [][Step("block") =>
            /\ pendingAction.phase \in {"block", "challenge_action"}
            /\ pendingAction' # NoPending
            /\ pendingAction'.phase = "challenge_block"
            /\ pendingAction'.blockerId = last'.by
            /\ <<pendingAction.action.type, pendingAction'.blockerCharacter>> \in PermittedBlocks
            /\ pendingAction'.action = pendingAction.action
            /\ UNCHANGED <<players, deck, currentPlayerIndex, winner, phase>>]_vars

\* the target of a steal blocked it as Ambassador during the challenge round
C18_Witness ==
    /\ last.op = "block"
    /\ last.type = "steal"
    /\ last.phase = "challenge_action"
    /\ pendingAction # NoPending
    /\ pendingAction.phase = "challenge_block"
    /\ pendingAction.blockerId = pendingAction.action.targetId
    /\ pendingAction.blockerCharacter = "Ambassador"

(* C19: pass is accepted only from a player in waitingForPlayers.  When      *)
(* other players are still awaited after it, the pass removes exactly the    *)
(* caller from waitingForPlayers and changes nothing else; and a player who  *)
(* has passed is not awaited again in the same phase, so nobody can pass     *)
(* twice in one phase.                                                       *)
C19_PassRemovesCaller ==
    [][Step("pass") =>
        LET newWaiting ==
                SelectSeq(pendingAction.waitingForPlayers, LAMBDA id : id # last'.by)
        IN
        /\ last'.awaited
        /\ Len(newWaiting) > 0 =>
              /\ pendingAction' = [pendingAction EXCEPT !.waitingForPlayers = newWaiting]
              /\ UNCHANGED <<players, deck, currentPlayerIndex, winner, phase>>
        /\ pendingAction' # NoPending /\ pendingAction'.phase = pendingAction.phase =>
              ~includes(pendingAction'.waitingForPlayers, last'.by)]_vars

\* the first player alive after the step, going round from the player after `from`
nextAliveAfter(from) ==
    LET n == Len(players)
        seat(k) == ((from - 1 + k) % n) + 1
        k0 == CHOOSE k \in 1..n :
                /\ players'[seat(k)].isAlive
                /\ \A j \in 1..(k - 1) : ~players'[seat(j)].isAlive
    IN seat(k0)

effectOn(action) ==
    LET actor == action.playerId
        target == action.targetId
        stolen == Min(2, players[target].coins)
        hand == players[target].influences
    IN CASE action.type = "tax" -> [players EXCEPT ![actor].coins = @ + 3]
         [] action.type = "foreign_aid" -> [players EXCEPT ![actor].coins = @ + 2]
         [] action.type = "steal" ->
              [players EXCEPT ![actor].coins = @ + stolen, ![target].coins = @ - stolen]
         [] action.type = "assassinate" /\ hand # <<>> ->
              [players EXCEPT ![target] =
                  [@ EXCEPT !.influences = Tail(hand),
                            !.revealedInfluences = Append(@, Head(hand)),
                            !.isAlive = Len(hand) > 1]]
         [] OTHER -> players

(* C21 as stated: when the last awaited player passes in block phase, the    *)
(* action is prevented - no player's coins or cards change - the pending     *)
(* action is cleared and the turn advances.                                  *)
C21_BlockPhasePrevents ==
    [][/\ Step("pass")
       /\ pendingAction.phase = "block"
       /\ Len(pendingAction.waitingForPlayers) = 1
       => /\ players' = players
          /\ pendingAction' = NoPending
          /\ currentPlayerIndex' # currentPlayerIndex]_vars

(* C21 amended: when the last awaited player passes in block phase, nobody   *)
(* has blocked: the effect of the action is applied (foreign aid +2, steal   *)
(* min(2, target's coins) moved, assassinate the target's first influence    *)
(* revealed), the pending action is cleared, and the turn goes to the next   *)
(* living player after the current one unless the game has a winner after    *)
(* the move, in which case currentPlayerIndex stays.                         *)
C21_BlockPhaseResolves ==
    [][/\ Step("pass")
       /\ pendingAction.phase = "block"
       /\ Len(pendingAction.waitingForPlayers) = 1
       => /\ pendingAction.action.type \in {"foreign_aid", "steal", "assassinate"}
          /\ players' = effectOn(pendingAction.action)
          /\ pendingAction' = NoPending
          /\ currentPlayerIndex' = IF winner' = NoPlayer
                                   THEN nextAliveAfter(currentPlayerIndex)
                                   ELSE currentPlayerIndex]_vars

\* foreign aid went unblocked: after the last pass of its block round the
\* actor has 2 coins more and the turn has moved on
C21_Witness ==
    /\ moves > 0
    /\ last.op = "pass"
    /\ last.type = "foreign_aid"
    /\ last.phase = "block"
    /\ pendingAction = NoPending
    /\ players[last.target].coins = last.coins[last.target] + 2
    /\ currentPlayerIndex # last.target

(* C22: a blockable action (assassinate, steal) is never resolved without a  *)
(* block round.  When a challenge of the action finds the actor holding the  *)
(* claimed character and the target is still alive, the pending action goes  *)
(* to block phase with the target awaited, and the effect of the action is   *)
(* not applied yet: no coins move and the target loses no card to it.        *)
C22_BlockRoundAfterFailedChallenge ==
    [][/\ Step("challenge")
       /\ pendingAction.phase = "challenge_action"
       /\ pendingAction.action.type \in {"assassinate", "steal"}
       /\ last'.held
       /\ last'.by # pendingAction.action.playerId
       /\ players'[pendingAction.action.targetId].isAlive
       => LET target == pendingAction.action.targetId
              lostToChallenge == IF last'.by = target THEN 1 ELSE 0
          IN
          /\ pendingAction' # NoPending
          /\ pendingAction'.phase = "block"
          /\ includes(pendingAction'.waitingForPlayers, target)
          /\ coins' = coins
          /\ Len(players'[target].influences) = hidden(target) - lostToChallenge]_vars

(* C23: a challenge in challenge_block phase decides the block.  If the      *)
(* blocker holds the character claimed for the block, the challenger loses   *)
(* an influence, the block stands - the effect of the blocked action is not  *)
(* applied: no coins move and nobody but the challenger loses a card - and   *)
(* the turn advances.  If the blocker does not hold it, the blocker loses an *)
(* influence and the effect of the action is applied as if nobody had        *)
(* blocked.                                                                  *)
C23_ChallengeDecidesBlock ==
    [][Step("challenge") /\ pendingAction.phase = "challenge_block" =>
        LET action == pendingAction.action
            actor == action.playerId
            target == action.targetId
            blocker == pendingAction.blockerId
            challenger == last'.by
            \* the cards every player holds once the blocker has lost one
            afterLoss == [i \in PlayerId |->
                            IF i = blocker THEN hidden(i) - 1 ELSE hidden(i)]
        IN
        IF last'.held
        THEN /\ Len(players'[challenger].influences) = hidden(challenger) - 1
             /\ coins' = coins
             /\ \A i \in PlayerId \ {challenger} :
                    Len(players'[i].influences) = hidden(i)
             /\ pendingAction' = NoPending
             /\ currentPlayerIndex' # currentPlayerIndex
        ELSE /\ Len(players'[blocker].revealedInfluences) >
                    Len(players[blocker].revealedInfluences)
             /\ pendingAction' = NoPending
             /\ CASE action.type = "foreign_aid" ->
                       /\ coins' = [coins EXCEPT ![actor] = @ + 2]
                       /\ \A i \in PlayerId : Len(players'[i].influences) = afterLoss[i]
                  [] action.type = "steal" ->
                       /\ coins' = [coins EXCEPT
                                      ![actor] = @ + Min(2, coins[target]),
                                      ![target] = @ - Min(2, coins[target])]
                       /\ \A i \in PlayerId : Len(players'[i].influences) = afterLoss[i]
                  [] action.type = "assassinate" ->
                       /\ coins' = coins
                       /\ \A i \in PlayerId :
                            Len(players'[i].influences) =
                                IF i = target THEN Max(0, afterLoss[i] - 1) ELSE afterLoss[i]
                  [] OTHER -> FALSE]_vars

(* C24: when every player awaited in challenge_block phase has passed, the   *)
(* block stands.  The last of these passes changes no player's coins or      *)
(* cards and not the deck, clears the pending action and gives the turn to   *)
(* the next living player after the current one.                             *)
C24_BlockStands ==
    [][/\ Step("pass")
       /\ pendingAction.phase = "challenge_block"
       /\ Len(pendingAction.waitingForPlayers) = 1
       => /\ players' = players
          /\ deck' = deck
          /\ pendingAction' = NoPending
          /\ currentPlayerIndex' = nextAliveAfter(currentPlayerIndex)
          /\ currentPlayerIndex' # currentPlayerIndex]_vars

(* C25: when a coup (resolved by startAction) or an assassination that went  *)
(* through its rounds unopposed (resolved by the last pass of the block      *)
(* round) lands on a target holding exactly one hidden influence, the same   *)
(* call eliminates the target - the card is revealed, no hidden influence is *)
(* left, isAlive is false, nothing is left pending - and if the actor is     *)
(* then the only living player, winner is the actor and phase is finished.   *)
C25_LastInfluenceEliminates ==
    [][\A actor, target \in PlayerId :
        /\ \/ /\ Step("startAction")
              /\ lastAction = [type |-> "coup", playerId |-> actor, targetId |-> target]
           \/ /\ Step("pass")
              /\ pendingAction.phase = "block"
              /\ Len(pendingAction.waitingForPlayers) = 1
              /\ pendingAction.action =
                     [type |-> "assassinate", playerId |-> actor, targetId |-> target]
        /\ hidden(target) = 1
        => /\ players'[target].influences = <<>>
           /\ players'[target].revealedInfluences =
                  players[target].revealedInfluences \o players[target].influences
           /\ ~players'[target].isAlive
           /\ pendingAction' = NoPending
           /\ {i \in PlayerId : players'[i].isAlive} = {actor} =>
                  winner' = actor /\ phase' = "finished"]_vars

\* an unopposed assassination took the last influence of the only other
\* player: the target is out and the actor has won
C25_Witness ==
    /\ last.op = "pass"
    /\ last.type = "assassinate"
    /\ last.phase = "block"
    /\ pendingAction = NoPending
    /\ winner = last.target
    /\ phase = "finished"
    /\ AliveIds = {winner}
    /\ \E t \in PlayerId \ {winner} :
         /\ players[t].influences = <<>>
         /\ Len(players[t].revealedInfluences) = 2

\* the player the step makes lose an influence: the target of a coup, the
\* challenger when the accused held the claimed character, the accused otherwise
\* (NoPlayer for every other step)
mustLoseInfluence ==
    IF Step("startAction") /\ last'.type = "coup" THEN last'.target
    ELSE IF Step("challenge") THEN (IF last'.held THEN last'.by ELSE last'.target)
    ELSE NoPlayer

(* C26: when a player holding two hidden influences must lose one (a coup    *)
(* lands on them, or they lose a challenge), the call removes no card from   *)
(* their hand: both cards stay hidden and the pending action is in           *)
(* lose_influence phase, so that the card goes only when that player chooses *)
(* it.                                                                       *)
C26_LoserChoosesCard ==
    [][\A p \in PlayerId :
        /\ mustLoseInfluence = p
        /\ hidden(p) = 2
        /\ Step("challenge") => last'.by # last'.target
        => /\ players'[p].influences = players[p].influences
           /\ players'[p].revealedInfluences = players[p].revealedInfluences
           /\ pendingAction' # NoPending
           /\ pendingAction'.phase = "lose_influence"]_vars

\* the step ends a turn: income and coup on startAction, every challenge, and
\* the last awaited pass unless it only opens the block round
EndsTurn ==
    \/ Step("startAction") /\ last'.type \in {"income", "coup"}
    \/ Step("challenge")
    \/ /\ Step("pass")
       /\ Len(pendingAction.waitingForPlayers) = 1
       /\ ~(/\ pendingAction.phase = "challenge_action"
            /\ pendingAction.action.type \in {"assassinate", "steal", "foreign_aid"})

(* C27: whenever a call ends a turn and no winner exists after it, the new   *)
(* currentPlayerIndex is the first living player strictly after the previous *)
(* current player in the cyclic order of the player list (eliminated players *)
(* are skipped, the last seat is followed by the first) and no action is     *)
(* pending; no call ever changes the number of seats.                        *)
C27_TurnOrder ==
    [][/\ Len(players') = Len(players)
       /\ EndsTurn /\ winner' = NoPlayer =>
            /\ currentPlayerIndex' = nextAliveAfter(currentPlayerIndex)
            /\ players'[currentPlayerIndex'].isAlive
            /\ currentPlayerIndex' # currentPlayerIndex
            /\ pendingAction' = NoPending]_vars

\* three players, the player seated after the one who just took income or
\* couped is eliminated: the turn went to the seat after that one
C27_Witness ==
    /\ moves > 0
    /\ Len(players) = 3
    /\ last.op = "startAction"
    /\ last.type \in {"income", "coup"}
    /\ winner = NoPlayer
    /\ pendingAction = NoPending
    /\ ~players[(last.by % 3) + 1].isAlive
    /\ currentPlayerIndex = ((last.by + 1) % 3) + 1

(* C28: the legality oracle and the validator agree.  In every state with no *)
(* pending action, startAction from the current player with kind k and       *)
(* target t is accepted exactly when k is in getValidActions(state) and k    *)
(* needs no target or t is in getValidTargets(state, k); where               *)
(* getValidActions is coup alone from 10 coins on and otherwise every kind   *)
(* the player can pay for (coup 7, assassinate 3), steal only when another   *)
(* living player has coins, and getValidTargets is the living players other  *)
(* than the current one (for steal, those with coins).                       *)
C28_OracleAgreesWithValidator ==
    pendingAction = NoPending =>
        LET me == currentPlayerIndex
            targeted == {"coup", "assassinate", "steal"}
            others == {i \in PlayerId : players[i].isAlive /\ i # me}
        IN
        /\ \A k \in ActionType, t \in PlayerId \cup {NoPlayer} :
             canPerformAction(State, [type |-> k, playerId |-> me, targetId |-> t]) = "valid"
             <=> /\ includes(getValidActions(State), k)
                 /\ k \in targeted => includes(getValidTargets(State, k), t)
        /\ Range(getValidActions(State)) =
             IF players[me].coins >= 10 THEN {"coup"}
             ELSE {k \in ActionType :
                     /\ k = "coup" => players[me].coins >= 7
                     /\ k = "assassinate" => players[me].coins >= 3
                     /\ k = "steal" => \E i \in others : players[i].coins > 0}
        /\ \A k \in ActionType :
             Range(getValidTargets(State, k)) =
                 IF k \in targeted
                 THEN {i \in others : k = "steal" => players[i].coins > 0}
                 ELSE {}

\* the number of cards in the deck
deckSize == sumSeq([i \in 1..Len(Characters) |-> deck[Characters[i]]])

(* C29 (checked under SpecCreateGame): createGame throws for fewer than 2 or *)
(* more than 6 names and then there is no game; for 2 to 6 names it returns  *)
(* a game with one player per name, each alive with 2 coins, 2 hidden and no *)
(* revealed influences, the deck holding the other 15 - 2n cards of the 15,  *)
(* the first player to move, nothing pending, no winner, phase playing.      *)
C29_CreateGame ==
    /\ [](last.op = "createGame" =>
            LET n == last.names IN
            IF n < 2 \/ n > 6
            THEN /\ last.error # "valid"
                 /\ players = <<>>
                 /\ phase = "lobby"
            ELSE /\ last.error = "valid"
                 /\ Len(players) = n
                 /\ \A i \in 1..n :
                      /\ players[i].isAlive
                      /\ players[i].coins = 2
                      /\ Len(players[i].influences) = 2
                      /\ players[i].revealedInfluences = <<>>
                 /\ deckSize = 15 - 2 * n
                 /\ \A c \in Character :
                      deck[c] + sumSeq([i \in 1..n |-> bagOfSeq(players[i].influences)[c]]) = 3
                 /\ currentPlayerIndex = 1
                 /\ pendingAction = NoPending
                 /\ winner = NoPlayer
                 /\ phase = "playing")
    /\ [][Step("createGame") /\ last'.error # "valid" =>
            UNCHANGED <<players, deck, currentPlayerIndex, pendingAction, winner, phase>>]_vars

\* a game for 6 names: 12 cards dealt, 3 left in the deck
C29_Witness ==
    /\ last.op = "createGame"
    /\ last.names = 6
    /\ Len(players) = 6
    /\ deckSize = 3

(* C30 (checked under SpecMultiplayer): moves are serialized per game.       *)
(* Every update that overwrites the stored game state was computed from the  *)
(* state it overwrites, so the stored state after it is the stored state     *)
(* before it with that one move applied, and no move written earlier is lost.*)
C30_MovesSerialized ==
    [][\A c \in Client :
        clients[c].update # NoUpdate /\ clients'[c].update = NoUpdate =>
            clients[c].update.from = State]_vars

-----------------------------------------------------------------------------
-----------------------------------------------------------------------------
(* C32: a pass in challenge_action phase never resolves a blockable action   *)
(* (assassinate, steal).  When the passer is the last awaited player, the    *)
(* pending action moves to block phase, waitingForPlayers becomes every      *)
(* living player but the actor - the passer among them when alive and not    *)
(* the actor - and no player, the deck, the turn and the winner change.      *)
C32_BlockRoundAfterPasses ==
    [][/\ Step("pass") /\ moves' = moves + 1
       /\ pendingAction.phase = "challenge_action"
       /\ pendingAction.action.type \in {"assassinate", "steal"}
       =>
        /\ UNCHANGED <<players, deck, currentPlayerIndex, winner, phase>>
        /\ pendingAction' # NoPending
        /\ pendingAction'.action = pendingAction.action
        /\ Range(pendingAction.waitingForPlayers) = {last'.by} =>
             /\ pendingAction'.phase = "block"
             /\ Range(pendingAction'.waitingForPlayers) = AliveIds \ {pendingAction.action.playerId}
             /\ Len(pendingAction'.waitingForPlayers) =
                   Cardinality(AliveIds \ {pendingAction.action.playerId})]_vars

\* the only awaited player of an assassination has passed the challenge round
\* and is awaited again, now in block phase
C32_Witness ==
    /\ last.op = "pass"
    /\ last.type = "assassinate"
    /\ last.phase = "challenge_action"
    /\ pendingAction # NoPending
    /\ pendingAction.phase = "block"
    /\ includes(pendingAction.waitingForPlayers, last.by)
    /\ coins = last.coins

-----------------------------------------------------------------------------
(* C33: after an accepted block, waitingForPlayers is exactly the living     *)
(* players other than the blocker, the original actor among them, and a      *)
(* challenge of the block by the actor is accepted; and the challenge_block  *)
(* phase ends only by a challenge or by the pass of the last awaited player, *)
(* the actor having passed by then.                                          *)
C33_ActorAwaitedAfterBlock ==
    /\ [][Step("block") /\ moves' = moves + 1 =>
            LET actor == pendingAction.action.playerId IN
            /\ Range(pendingAction'.waitingForPlayers) = AliveIds \ {last'.by}
            /\ Len(pendingAction'.waitingForPlayers) = Cardinality(AliveIds \ {last'.by})
            /\ includes(pendingAction'.waitingForPlayers, actor)
            /\ canChallenge(State', actor) = "valid"]_vars
    /\ [][/\ pendingAction # NoPending
          /\ pendingAction.phase = "challenge_block"
          /\ pendingAction' = NoPending \/ pendingAction'.phase # "challenge_block"
          =>
            \/ Step("challenge")
            \/ /\ Step("pass")
               /\ Range(pendingAction.waitingForPlayers) = {last'.by}]_vars

-----------------------------------------------------------------------------
(* C34: a finished game has no action in flight: in every reachable state    *)
(* where winner is set, pendingAction is null.                               *)
C34_NoPendingAfterWinner ==
    winner # NoPlayer => pendingAction = NoPending

-----------------------------------------------------------------------------
(* C35 (checked under SpecTimeouts): every action in flight terminates under *)
(* passes.  From a state with a pending action and no winner, when every     *)
(* awaited player is passed for, the passing ends with the pending action    *)
(* cleared (from some point on, for good, no action is pending in a game     *)
(* that is being passed for), after at most two passes per living player     *)
(* other than the actor.  As claimed, the turn is then with another living   *)
(* player than before.                                                       *)
C35_PassesTerminate ==
    /\ <>[](last.op = "timeout" => pendingAction = NoPending)
    /\ [](last.op = "timeout" => last.passes <= 2 * last.others)
    /\ [][/\ last'.op = "timeout"
          /\ pendingAction # NoPending
          /\ pendingAction' = NoPending
          =>
            /\ currentPlayerIndex' # last'.turn
            /\ players'[currentPlayerIndex'].isAlive]_vars

(* C35, amended: the same, but the turn is with another living player only   *)
(* when the resolved action has not ended the game; when the last pass       *)
(* resolves an assassination that leaves one player alive, the winner is set *)
(* and the turn stays where it was.                                          *)
C35_PassesTerminateOrGameEnds ==
    /\ <>[](last.op = "timeout" => pendingAction = NoPending)
    /\ [](last.op = "timeout" => last.passes <= 2 * last.others)
    /\ [][/\ last'.op = "timeout"
          /\ pendingAction # NoPending
          /\ pendingAction' = NoPending
          =>
            IF winner' = NoPlayer
            THEN /\ currentPlayerIndex' # last'.turn
                 /\ players'[currentPlayerIndex'].isAlive
            ELSE currentPlayerIndex' = last'.turn]_vars

\* a steal in a three-player game was passed for four times, twice for each of
\* the two other players, and is resolved: the turn has moved on
C35_Witness ==
    /\ last.op = "timeout"
    /\ last.passes = 4
    /\ last.others = 2
    /\ pendingAction = NoPending
    /\ winner = NoPlayer
    /\ currentPlayerIndex # last.turn

-----------------------------------------------------------------------------
(* C36: in every reachable state with no winner the player at                *)
(* currentPlayerIndex is alive, and in every reachable state with a pending  *)
(* action the actor of that action is the player at currentPlayerIndex.      *)
C36_CurrentPlayerActs ==
    /\ winner = NoPlayer => players[currentPlayerIndex].isAlive
    /\ pendingAction # NoPending => pendingAction.action.playerId = currentPlayerIndex

\* in a three-player game the player seated before the current one is out, and
\* an action of the current player is pending
C36_Witness ==
    /\ Len(players) = 3
    /\ winner = NoPlayer
    /\ \E i \in PlayerId : ~players[i].isAlive
    /\ pendingAction # NoPending
    /\ pendingAction.action.playerId = currentPlayerIndex
    /\ ~players[((currentPlayerIndex + 1) % 3) + 1].isAlive

-----------------------------------------------------------------------------
-----------------------------------------------------------------------------
(* C38: no player ever holds more than 12 coins: in every reachable state    *)
(* every player's coins are between 0 and 12, because a call raises the      *)
(* coins of nobody but the player whose turn it is, by at most 3, and only   *)
(* when that player held fewer than 10 coins.                                *)
C38_CoinsAtMostTwelve ==
    /\ [](\A i \in PlayerId : players[i].coins >= 0 /\ players[i].coins <= 12)
    /\ [][\A i \in PlayerId :
            players'[i].coins > players[i].coins =>
                /\ i = currentPlayerIndex
                /\ players[i].coins < MustCoupCoins
                /\ players'[i].coins <= players[i].coins + 3]_vars

\* a player who took income at 8 coins and then tax holds 12 coins
C38_Witness ==
    /\ last.op = "pass"
    /\ last.type = "tax"
    /\ \E i \in PlayerId : players[i].coins = 12 /\ last.coins[i] = 9

-----------------------------------------------------------------------------
(* C39 (checked under SpecRummy): while the phase is 'playing' exactly one   *)
(* player has isTurn = true, that player is the one at currentPlayerIndex    *)
(* and has not dropped; and a call of drawFromDeck, drawFromDiscard or       *)
(* discardCard by a player who has dropped changes nothing.                  *)
C39_OneTurnHolder ==
    /\ [](rummy.phase = "playing" =>
            /\ {i \in RummyPlayerId : rummy.players[i].isTurn} = {rummy.currentPlayerIndex}
            /\ ~rummy.players[rummy.currentPlayerIndex].hasDropped)
    /\ [][/\ last'.op \in {"drawFromDeck", "drawFromDiscard", "discardCard"}
          /\ rummy.players[last'.by].hasDropped
          => rummy' = rummy]_vars

=============================================================================
